---- MODULE Spec2Model ----
(***************************************************************************)
(* Model of climate_3layer/animation_visualizer.py: the reconstruction of  *)
(* per-round snapshots from the panel files and the climate summary file,  *)
(* and the attribution of climate stress to agents.                        *)
(*                                                                         *)
(* Python values are represented as follows.                               *)
(*   dict with insertion order   sequence of [key, val] entries, keys      *)
(*                               distinct (DictPut keeps the position of   *)
(*                               an existing key, as Python does)          *)
(*   geographical_assignments    function on <<agent_type, agent_id>>; the *)
(*                               loader never stores an empty inner dict,  *)
(*                               so the nested lookup is the flat one      *)
(*   a CSV cell parsed by int()  [ok |-> BOOLEAN, n |-> Int]: ok is FALSE  *)
(*                               for text int() raises ValueError on       *)
(*   float NaN                   [isnan |-> TRUE, val |-> 0]               *)
(*   a file                      [exists, readable, rows]                  *)
(***************************************************************************)
EXTENDS Integers, Sequences, FiniteSets, TLC

\* ------------------------------------------------------------------ bounds
MaxRows == 2          \* rows of a rich panel file
MaxRound == 1         \* largest round number written in a panel row
MaxEvents == 2        \* entries of an active-event mapping (SpecStress)
MaxSummaryRows == 2   \* rows of the climate summary file
MaxCalls == 3         \* calls of the aggregator in any order (SpecReorder)

VARIABLES
    pc,                        \* position of the running function
    config_exists,             \* os.path.exists(config_file)
    panels,                    \* the four panel CSV files, by agent type
    summary,                   \* climate_3_layer_summary.csv
    num_rounds,                \* run_animation_visualizations: num_rounds
    geographical_assignments,  \* ClimateFrameworkFromData field
    climate_events_history,    \* ClimateFrameworkFromData field
    visualization_data,        \* collect_all_visualization_data: the result
    calls,                     \* round numbers collect_simulation_data was called with
    outcome,                   \* how run_animation_visualizations ended
    round_num,                 \* argument of collect_simulation_data (SpecAggregate)
    round_data,                \* result of collect_simulation_data (SpecAggregate)
    agent,                     \* [type, id]: arguments of is_agent_climate_stressed
    climate_events,            \* argument of is_agent_climate_stressed
    is_climate_stressed        \* its result

vars == <<pc, config_exists, panels, summary, num_rounds, geographical_assignments,
          climate_events_history, visualization_data, calls, outcome, round_num,
          round_data, agent, climate_events, is_climate_stressed>>

\* ------------------------------------------------------------ Python values
\* A variable no statement has assigned yet.
None == [none |-> TRUE]
NaN == [isnan |-> TRUE, val |-> 0]
Num(n) == [isnan |-> FALSE, val |-> n]

EmptyDict == << >>
DictHas(d, k) == \E i \in DOMAIN d : d[i].key = k
DictPut(d, k, v) ==
    IF DictHas(d, k)
    THEN [i \in DOMAIN d |-> IF d[i].key = k THEN [key |-> k, val |-> v] ELSE d[i]]
    ELSE Append(d, [key |-> k, val |-> v])

\* x in list
InList(x, list) == \E i \in DOMAIN list : list[i] = x

RECURSIVE SumSeq(_)
SumSeq(s) == IF s = << >> THEN 0 ELSE Head(s) + SumSeq(Tail(s))

\* All sequences over S of length at most n.
SeqsUpTo(S, n) == UNION {[1..k -> S] : k \in 0..n}

\* int(text): ValueError unless the text is an integer literal.
ParseInt(cell) == [raised |-> ~cell.ok, value |-> cell.n]

\* ------------------------------------------------------- geography lookup
\* Absent geography: the sentinel continent and vulnerability 0.0.
get_agent_continent(agent_type, agent_id, geo) ==
    IF <<agent_type, agent_id>> \in DOMAIN geo
    THEN geo[<<agent_type, agent_id>>].continent
    ELSE "Unknown"

\* Slip: an agent without an entry gets the vulnerability of a vulnerable agent.
get_agent_vulnerability_DefaultOne(agent_type, agent_id, geo) ==
    IF <<agent_type, agent_id>> \in DOMAIN geo
    THEN geo[<<agent_type, agent_id>>].vulnerability
    ELSE 1

get_agent_vulnerability(agent_type, agent_id, geo) ==
    IF <<agent_type, agent_id>> \in DOMAIN geo
    THEN geo[<<agent_type, agent_id>>].vulnerability
    ELSE 0

\* ------------------------------------------------------ stress attribution
\* Slip: the list of continent names of the old format is cut short.
LegacyContinents_Short == {"North America", "Europe"}

\* The continent names the old event format uses as keys.
LegacyContinents == {"North America", "Europe", "Asia", "South America", "Africa"}

\* event_data.get(field, []) on a dict that may lack the field
GetOrEmpty(event_data, field) ==
    IF field \in DOMAIN event_data THEN event_data[field] ELSE << >>

\* Slip: the continent names of the old format stress every agent.
EventMatches_LegacyAnyAgent(agent_type, agent_id, event_key, event_val, geo) ==
    IF event_val.isdict
    THEN LET affected_agent_types == GetOrEmpty(event_val.data, "agent_types")
             affected_continents == GetOrEmpty(event_val.data, "continents")
         IN  /\ InList(agent_type, affected_agent_types)
             /\ \/ InList("all", affected_continents)
                \/ InList(get_agent_continent(agent_type, agent_id, geo),
                          affected_continents)
    ELSE event_key \in LegacyContinents

\* Slip: the continent is resolved first, and "all" stands for the known ones only.
EventMatches_AllNeedsKnown(agent_type, agent_id, event_key, event_val, geo) ==
    IF event_val.isdict
    THEN LET affected_agent_types == GetOrEmpty(event_val.data, "agent_types")
             affected_continents == GetOrEmpty(event_val.data, "continents")
             agent_continent == get_agent_continent(agent_type, agent_id, geo)
         IN  /\ InList(agent_type, affected_agent_types)
             /\ \/ InList("all", affected_continents) /\ agent_continent # "Unknown"
                \/ InList(agent_continent, affected_continents)
    ELSE /\ event_key \in LegacyContinents
         /\ get_agent_continent(agent_type, agent_id, geo) = event_key

\* One iteration of the loop over climate_events.items(): TRUE when it returns True.
EventMatches(agent_type, agent_id, event_key, event_val, geo) ==
    IF event_val.isdict
    THEN LET affected_agent_types == GetOrEmpty(event_val.data, "agent_types")
             affected_continents == GetOrEmpty(event_val.data, "continents")
         IN  /\ InList(agent_type, affected_agent_types)
             /\ \/ InList("all", affected_continents)
                \/ InList(get_agent_continent(agent_type, agent_id, geo),
                          affected_continents)
    ELSE /\ event_key \in LegacyContinents
         /\ get_agent_continent(agent_type, agent_id, geo) = event_key

\* Slip: "return False" inside the loop, so only the first event is looked at.
StressLoop_FirstOnly(agent_type, agent_id, events, geo, i) ==
    /\ i <= Len(events)
    /\ EventMatches(agent_type, agent_id, events[i].key, events[i].val, geo)

\* The loop from entry i on: the first matching event returns True.
RECURSIVE StressLoop(_, _, _, _, _)
StressLoop(agent_type, agent_id, events, geo, i) ==
    IF i > Len(events) THEN FALSE
    ELSE IF EventMatches(agent_type, agent_id, events[i].key, events[i].val, geo)
         THEN TRUE
         ELSE StressLoop(agent_type, agent_id, events, geo, i + 1)

is_agent_climate_stressed(agent_type, agent_id, events, geo) ==
    IF events = EmptyDict THEN FALSE
    ELSE StressLoop(agent_type, agent_id, events, geo, 1)

\* --------------------------------------------------------- round aggregator
AgentTypes == <<"commodity_producer", "intermediary_firm", "final_goods_firm", "household">>
AgentTypeSet == {AgentTypes[i] : i \in DOMAIN AgentTypes}

\* The key of round_data['production'] a producing agent type is summed into.
ProductionKey(agent_type) ==
    CASE agent_type = "commodity_producer" -> "commodity"
      [] agent_type = "intermediary_firm" -> "intermediary"
      [] agent_type = "final_goods_firm" -> "final_goods"
      [] OTHER -> "none"

\* The record built for one panel row.
AgentData(agent_type, agent_id, r, row, events, geo) ==
    IF agent_type = "household"
    THEN [id |-> agent_id, type |-> agent_type, round |-> r,
          production |-> 0, consumption |-> row.good, production_capacity |-> 0,
          climate_stressed |-> is_agent_climate_stressed(agent_type, agent_id, events, geo),
          wealth |-> row.money,
          continent |-> get_agent_continent(agent_type, agent_id, geo),
          vulnerability |-> get_agent_vulnerability(agent_type, agent_id, geo)]
    ELSE [id |-> agent_id, type |-> agent_type, round |-> r,
          production |-> row.good, production_capacity |-> row.good,
          climate_stressed |-> is_agent_climate_stressed(agent_type, agent_id, events, geo),
          wealth |-> row.money,
          continent |-> get_agent_continent(agent_type, agent_id, geo),
          vulnerability |-> get_agent_vulnerability(agent_type, agent_id, geo)]

\* for _, row in round_df.iterrows(): from row i on. int() raising on a row's name
\* leaves the loop, and the whole try block, with the records appended so far.
RECURSIVE RowLoop(_, _, _, _, _, _, _)
RowLoop(agent_type, r, round_df, i, agents, events, geo) ==
    IF i > Len(round_df) THEN [agents |-> agents, raised |-> FALSE]
    ELSE LET parsed == ParseInt(round_df[i].name)
         IN  IF parsed.raised THEN [agents |-> agents, raised |-> TRUE]
             ELSE RowLoop(agent_type, r, round_df, i + 1,
                          Append(agents,
                                 AgentData(agent_type, parsed.value, r, round_df[i], events, geo)),
                          events, geo)

\* round_df[good_column].sum()
ColumnSum(round_df) == SumSeq([i \in DOMAIN round_df |-> round_df[i].good])

\* Slip: the test that keeps households out of the totals is lost, and their
\* holdings of the final good are added to the final goods total.
ReadCategory_CountsHouseholds(acc, agent_type, file, r, events, geo) ==
    IF ~file.exists \/ ~file.readable THEN acc
    ELSE LET InRound(row) == row.round = r
             round_df == SelectSeq(file.rows, InRound)
         IN  IF Len(round_df) = 0 THEN acc
             ELSE LET loop == RowLoop(agent_type, r, round_df, 1, acc.agents, events, geo)
                      key == IF agent_type = "household" THEN "final_goods"
                             ELSE ProductionKey(agent_type)
                  IN  IF loop.raised
                      THEN [acc EXCEPT !.agents = loop.agents]
                      ELSE [agents |-> loop.agents,
                            production |-> [acc.production EXCEPT
                                              ![key] = @ + ColumnSum(round_df)]]

\* The body of the loop over production_files for one agent type; acc is
\* [agents, production]. A missing file is skipped, and an exception anywhere in the
\* try block is caught after whatever the block had already done.
ReadCategory(acc, agent_type, file, r, events, geo) ==
    IF ~file.exists \/ ~file.readable THEN acc
    ELSE LET InRound(row) == row.round = r
             round_df == SelectSeq(file.rows, InRound)
         IN  IF Len(round_df) = 0 THEN acc
             ELSE LET loop == RowLoop(agent_type, r, round_df, 1, acc.agents, events, geo)
                  IN  IF loop.raised \/ agent_type = "household"
                      THEN [acc EXCEPT !.agents = loop.agents]
                      ELSE [agents |-> loop.agents,
                            production |-> [acc.production EXCEPT
                                              ![ProductionKey(agent_type)] = ColumnSum(round_df)]]

\* Slip: a panel that is missing or cannot be read ends the loop over the agent
\* types instead of being passed over.
RECURSIVE CategoryLoop_StopAtFailure(_, _, _, _, _, _)
CategoryLoop_StopAtFailure(acc, i, files, r, events, geo) ==
    IF i > Len(AgentTypes) THEN acc
    ELSE IF ~files[AgentTypes[i]].exists \/ ~files[AgentTypes[i]].readable THEN acc
    ELSE CategoryLoop_StopAtFailure(
             ReadCategory(acc, AgentTypes[i], files[AgentTypes[i]], r, events, geo),
             i + 1, files, r, events, geo)

RECURSIVE CategoryLoop(_, _, _, _, _, _)
CategoryLoop(acc, i, files, r, events, geo) ==
    IF i > Len(AgentTypes) THEN acc
    ELSE CategoryLoop(ReadCategory(acc, AgentTypes[i], files[AgentTypes[i]], r, events, geo),
                      i + 1, files, r, events, geo)

WealthOf(agents, agent_type) ==
    LET OfType(a) == a.type = agent_type
        mine == SelectSeq(agents, OfType)
    IN  SumSeq([i \in DOMAIN mine |-> mine[i].wealth])

\* Slip: an event of the round before that lasts longer than one round is still
\* active, unless the round has an event of that name itself.
ActiveEvents_Lasting(r, history) ==
    IF r < Len(history)
    THEN LET own == history[r + 1]
             Lasts(e) == /\ e.val.isdict
                         /\ e.val.data.duration > 1
                         /\ ~DictHas(own, e.key)
         IN  IF r >= 1 THEN own \o SelectSeq(history[r], Lasts) ELSE own
    ELSE EmptyDict

\* Slip: the history indexed one round late.
ActiveEvents_Shifted(r, history) ==
    IF r + 1 < Len(history) THEN history[r + 2] ELSE EmptyDict

\* round_data['climate']: the round's entry of the history when it has one.
ActiveEvents(r, history) == IF r < Len(history) THEN history[r + 1] ELSE EmptyDict

collect_simulation_data(files, r, geo, history) ==
    LET climate == ActiveEvents(r, history)
        read == CategoryLoop([agents |-> << >>,
                              production |-> [commodity |-> 0, intermediary |-> 0,
                                              final_goods |-> 0]],
                             1, files, r, climate, geo)
    IN  [agents |-> read.agents,
         climate |-> climate,
         production |-> read.production,
         wealth |-> [commodity |-> WealthOf(read.agents, "commodity_producer"),
                     intermediary |-> WealthOf(read.agents, "intermediary_firm"),
                     final_goods |-> WealthOf(read.agents, "final_goods_firm"),
                     households |-> WealthOf(read.agents, "household")],
         inventories |-> read.production]

\* ------------------------------------------------- geography & event loader
GeoType == "geographical_assignment"

\* df[df['data_type'] == 'geographical_assignment'] and its complement
GeoRowsOf(rows) == LET IsGeo(row) == row.data_type = GeoType IN SelectSeq(rows, IsGeo)
EventRowsOf(rows) == LET IsEvent(row) == row.data_type # GeoType IN SelectSeq(rows, IsEvent)

\* for _, row in geo_df.iterrows(): from row i on; int() raising ends the function.
RECURSIVE GeoLoop(_, _, _)
GeoLoop(geo_df, i, acc) ==
    IF i > Len(geo_df) THEN [raised |-> FALSE, geo |-> acc]
    ELSE LET row == geo_df[i]
             parsed == ParseInt(row.agent_id)
             k == <<row.agent_type, parsed.value>>
             v == [continent |-> row.continent, vulnerability |-> row.vulnerability]
         IN  IF parsed.raised THEN [raised |-> TRUE, geo |-> acc]
             ELSE GeoLoop(geo_df, i + 1,
                          [x \in DOMAIN acc \cup {k} |-> IF x = k THEN v ELSE acc[x]])

\* Slip: without a summary file a made-up assignment is returned for the empty one.
load_real_geographical_assignments_MadeUp(file) ==
    IF ~file.exists \/ ~file.readable
    THEN [k \in {<<"commodity_producer", 0>>} |-> [continent |-> "Asia", vulnerability |-> 1]]
    ELSE LET loop == GeoLoop(GeoRowsOf(file.rows), 1, << >>)
         IN  IF loop.raised THEN << >> ELSE loop.geo

\* A missing file, and any exception, give the empty assignment.
load_real_geographical_assignments(file) ==
    IF ~file.exists \/ ~file.readable THEN << >>
    ELSE LET loop == GeoLoop(GeoRowsOf(file.rows), 1, << >>)
         IN  IF loop.raised THEN << >> ELSE loop.geo

\* text.split(','): the text is a sequence of pieces, "," being the separator.
RECURSIVE SplitLoop(_, _, _, _)
SplitLoop(text, i, cur, out) ==
    IF i > Len(text) THEN Append(out, cur)
    ELSE IF text[i] = "," THEN SplitLoop(text, i + 1, "", Append(out, cur))
         ELSE SplitLoop(text, i + 1, cur \o text[i], out)

Split(text) == SplitLoop(text, 1, "", << >>)

\* Series.unique(): the values in order of first appearance
RECURSIVE Unique(_)
Unique(s) ==
    IF s = << >> THEN << >>
    ELSE LET front == Unique(SubSeq(s, 1, Len(s) - 1))
         IN  IF InList(s[Len(s)], front) THEN front ELSE Append(front, s[Len(s)])

\* cell if pd.notna(cell) else default
NotNaOr(cell, default) == IF cell.isna THEN default ELSE cell.val

\* Slip: iloc[-1] for iloc[0], the last row of the group defines the event.
EventDescriptor_LastRow(event_rows) ==
    LET first_row == event_rows[Len(event_rows)]
    IN  [type |-> "configurable_shock",
         rule_name |-> first_row.data_type,
         agent_types |-> IF first_row.affected_agent_types.isna THEN << >>
                         ELSE Split(first_row.affected_agent_types.val),
         continents |-> Unique([i \in DOMAIN event_rows |-> event_rows[i].continent]),
         stress_factor |-> NotNaOr(first_row.stress_factor, 1),
         duration |-> NotNaOr(first_row.duration, 1),
         affected_agents |-> EmptyDict]

\* The descriptor of one event name within one round's rows.
EventDescriptor(event_rows) ==
    LET first_row == event_rows[1]
    IN  [type |-> "configurable_shock",
         rule_name |-> first_row.data_type,
         agent_types |-> IF first_row.affected_agent_types.isna THEN << >>
                         ELSE Split(first_row.affected_agent_types.val),
         continents |-> Unique([i \in DOMAIN event_rows |-> event_rows[i].continent]),
         stress_factor |-> NotNaOr(first_row.stress_factor, 1),
         duration |-> NotNaOr(first_row.duration, 1),
         affected_agents |-> EmptyDict]

\* for event_name in round_events['event_name'].unique(): from name i on
RECURSIVE EventNameLoop(_, _, _, _)
EventNameLoop(round_events, names, i, events_dict) ==
    IF i > Len(names) THEN events_dict
    ELSE LET Named(row) == row.event_name = names[i]
             event_rows == SelectSeq(round_events, Named)
         IN  EventNameLoop(round_events, names, i + 1,
                           DictPut(events_dict, names[i],
                                   [isdict |-> TRUE, data |-> EventDescriptor(event_rows)]))

RoundEvents(events_df, r) ==
    LET InRound(row) == row.agent_id.n = r
        round_events == SelectSeq(events_df, InRound)
    IN  IF Len(round_events) > 0
        THEN EventNameLoop(round_events,
                           Unique([i \in DOMAIN round_events |-> round_events[i].event_name]),
                           1, EmptyDict)
        ELSE EmptyDict

MaxOf(S) == CHOOSE m \in S : \A x \in S : x <= m

\* One cell that is not a number makes pandas read the whole agent_id column as
\* text: the geography rows still parse one by one, but max_round + 1 raises.
AgentIdColumnIsInt(rows) == \A i \in DOMAIN rows : rows[i].agent_id.ok

\* A missing file, no event rows, and any exception, give the empty history.
load_real_climate_events(file) ==
    IF ~file.exists \/ ~file.readable THEN << >>
    ELSE LET events_df == EventRowsOf(file.rows)
         IN  IF Len(events_df) = 0 THEN << >>
             ELSE IF ~AgentIdColumnIsInt(file.rows) THEN << >>
             ELSE LET max_round == MaxOf({events_df[i].agent_id.n : i \in DOMAIN events_df})
                  IN  [r \in 1..(max_round + 1) |-> RoundEvents(events_df, r - 1)]

\* ------------------------------------------------------- aggregation driver
\* df['round'].max() + 1: the maximum of no rows is NaN, and NaN + 1 is NaN.
DetectedRounds(rows) ==
    IF rows = << >> THEN NaN
    ELSE Num(MaxOf({rows[i].round : i \in DOMAIN rows}) + 1)

\* len(history) < num_rounds: every comparison with NaN is False.
LenBelow(history, n) == ~n.isnan /\ Len(history) < n.val

\* Slip: "<=" for "<", one empty mapping too many.
RECURSIVE PadHistory_OneMore(_, _)
PadHistory_OneMore(history, n) ==
    IF ~n.isnan /\ Len(history) <= n.val
    THEN PadHistory_OneMore(Append(history, EmptyDict), n)
    ELSE history

\* while len(climate_events_history) < num_rounds: climate_events_history.append({})
RECURSIVE PadHistory(_, _)
PadHistory(history, n) ==
    IF LenBelow(history, n) THEN PadHistory(Append(history, EmptyDict), n) ELSE history

EmptyVisualizationData ==
    [rounds |-> << >>, agent_data |-> << >>, climate_events |-> << >>,
     production_data |-> << >>, wealth_data |-> << >>]

\* Slip: insert(0, ...) for append(...), the newest round first.
AppendRound_Prepend(data, r, rd) ==
    [rounds |-> <<r>> \o data.rounds,
     agent_data |-> <<rd.agents>> \o data.agent_data,
     climate_events |-> <<rd.climate>> \o data.climate_events,
     production_data |-> <<rd.production>> \o data.production_data,
     wealth_data |-> <<rd.wealth>> \o data.wealth_data]

\* The body of the loop over range(num_rounds) for round r.
AppendRound(data, r, rd) ==
    [rounds |-> Append(data.rounds, r),
     agent_data |-> Append(data.agent_data, rd.agents),
     climate_events |-> Append(data.climate_events, rd.climate),
     production_data |-> Append(data.production_data, rd.production),
     wealth_data |-> Append(data.wealth_data, rd.wealth)]

\* The round the loop of collect_all_visualization_data is at.
NextRound(data) == Len(data.rounds)

\* ------------------------------------------------------------------ inputs
Absent == [exists |-> FALSE, readable |-> FALSE, rows |-> << >>]
\* A file pd.read_csv raises on, or one without the column the reader filters on.
Unreadable == [exists |-> TRUE, readable |-> FALSE, rows |-> << >>]
File(rows) == [exists |-> TRUE, readable |-> TRUE, rows |-> rows]

IntCell(n) == [ok |-> TRUE, n |-> n]
BadCell == [ok |-> FALSE, n |-> 0]
NaCell == [isna |-> TRUE, val |-> 0]
NaText == [isna |-> TRUE, val |-> << >>]
Cell(v) == [isna |-> FALSE, val |-> v]

PanelRow(r, name, good, money) == [round |-> r, name |-> name, good |-> good, money |-> money]
Rounds == 0..MaxRound

\* Rows of the panel file a run of the aggregator is studied on.
RichRows == {PanelRow(r, name, good, 5) :
                r \in Rounds, name \in {IntCell(0), IntCell(1), BadCell}, good \in {10, 15}}
\* A one-row panel of round 0.
OneRow == <<PanelRow(0, IntCell(0), 10, 5)>>
OneBadRow == <<PanelRow(0, BadCell, 10, 5)>>

GeoRow(agent_type, agent_id, continent) ==
    [data_type |-> GeoType, agent_type |-> agent_type, agent_id |-> agent_id,
     continent |-> continent, vulnerability |-> 1, event_name |-> "",
     affected_agent_types |-> NaText, stress_factor |-> NaCell, duration |-> NaCell]

\* What the first row of an event gives its descriptor.
EventProfiles ==
    {[data_type |-> "heat_rule", affected_agent_types |-> NaText,
      stress_factor |-> NaCell, duration |-> NaCell],
     [data_type |-> "heat_rule", affected_agent_types |-> Cell(<<"commodity_producer">>),
      stress_factor |-> Cell(2), duration |-> Cell(3)],
     [data_type |-> "flood_rule",
      affected_agent_types |-> Cell(<<"commodity_producer", ",", "household">>),
      stress_factor |-> NaCell, duration |-> Cell(2)]}

EventRow(profile, r, event_name, continent) ==
    [data_type |-> profile.data_type, agent_type |-> "", agent_id |-> IntCell(r),
     continent |-> continent, vulnerability |-> 0, event_name |-> event_name,
     affected_agent_types |-> profile.affected_agent_types,
     stress_factor |-> profile.stress_factor, duration |-> profile.duration]

\* Event rows may lie one round past the last panel round.
EventRounds == 0..(MaxRound + 1)

HeatProfile == CHOOSE p \in EventProfiles : p.stress_factor = Cell(2)

\* ------------------------------------------ specification of the whole driver
DriverPanelRows == {PanelRow(r, IntCell(0), 10, 5) : r \in Rounds}
DriverPanels ==
    {[t \in AgentTypeSet |->
        CASE t = "commodity_producer" -> c
          [] t = "intermediary_firm" -> i
          [] t = "final_goods_firm" -> f
          [] OTHER -> h] :
     c \in {Absent, Unreadable} \cup {File(rows) : rows \in SeqsUpTo(DriverPanelRows, MaxRows)},
     i \in {Absent, Unreadable, File(OneRow), File(OneBadRow)},
     f \in {Absent, File(OneRow)},
     h \in {Absent, File(OneRow)}}

DriverSummaryRows ==
    {GeoRow("commodity_producer", IntCell(0), "Asia")}
    \cup {EventRow(HeatProfile, r, "heatwave", "Asia") : r \in EventRounds}
DriverSummaries ==
    {Absent} \cup {File(rows) : rows \in SeqsUpTo(DriverSummaryRows, MaxSummaryRows)}

NoAgent == [type |-> "", id |-> 0]

Init ==
    /\ pc = "start"
    /\ config_exists \in BOOLEAN
    /\ panels \in DriverPanels
    /\ summary \in DriverSummaries
    /\ num_rounds = None
    /\ geographical_assignments = None
    /\ climate_events_history = None
    /\ visualization_data = None
    /\ calls = << >>
    /\ outcome = "running"
    /\ round_num = 0
    /\ round_data = None
    /\ agent = NoAgent
    /\ climate_events = EmptyDict
    /\ is_climate_stressed = None

inputVars == <<config_exists, panels, summary>>
aggregateVars == <<round_num, round_data>>
stressVars == <<agent, climate_events, is_climate_stressed>>
frameworkVars == <<geographical_assignments, climate_events_history>>

DetectionPanel == panels["commodity_producer"]

\* Lines 707-709: no configuration file.
ConfigNotFound ==
    /\ pc = "start"
    /\ ~config_exists
    /\ pc' = "done"
    /\ outcome' = "config_not_found"
    /\ UNCHANGED <<inputVars, num_rounds, frameworkVars, visualization_data, calls,
                   aggregateVars, stressVars>>

\* Lines 715-719: no commodity producer panel.
OutputNotFound ==
    /\ pc = "start"
    /\ config_exists
    /\ ~DetectionPanel.exists
    /\ pc' = "done"
    /\ outcome' = "output_not_found"
    /\ UNCHANGED <<inputVars, num_rounds, frameworkVars, visualization_data, calls,
                   aggregateVars, stressVars>>

\* Lines 721-727: reading the panel raises.
ReadError ==
    /\ pc = "start"
    /\ config_exists
    /\ DetectionPanel.exists
    /\ ~DetectionPanel.readable
    /\ pc' = "done"
    /\ outcome' = "read_error"
    /\ UNCHANGED <<inputVars, num_rounds, frameworkVars, visualization_data, calls,
                   aggregateVars, stressVars>>

\* Lines 721-724: the round count is read off the commodity producer panel.
DetectRounds ==
    /\ pc = "start"
    /\ config_exists
    /\ DetectionPanel.exists
    /\ DetectionPanel.readable
    /\ num_rounds' = DetectedRounds(DetectionPanel.rows)
    /\ pc' = "load_geo"
    /\ UNCHANGED <<inputVars, frameworkVars, visualization_data, calls, outcome,
                   aggregateVars, stressVars>>

\* Line 731.
LoadGeography ==
    /\ pc = "load_geo"
    /\ geographical_assignments' = load_real_geographical_assignments(summary)
    /\ pc' = "load_events"
    /\ UNCHANGED <<inputVars, num_rounds, climate_events_history, visualization_data,
                   calls, outcome, aggregateVars, stressVars>>

\* Line 734.
LoadEvents ==
    /\ pc = "load_events"
    /\ climate_events_history' = load_real_climate_events(summary)
    /\ pc' = "pad"
    /\ UNCHANGED <<inputVars, num_rounds, geographical_assignments, visualization_data,
                   calls, outcome, aggregateVars, stressVars>>

\* Lines 736-748 and 668-678: the history is padded, the framework built and
\* collect_all_visualization_data entered.
BuildFramework ==
    /\ pc = "pad"
    /\ climate_events_history' = PadHistory(climate_events_history, num_rounds)
    /\ visualization_data' = EmptyVisualizationData
    /\ pc' = "collect"
    /\ UNCHANGED <<inputVars, num_rounds, geographical_assignments, calls, outcome,
                   aggregateVars, stressVars>>

\* Line 681: range(num_rounds) raises TypeError on a float, and nothing catches it.
RangeRaises ==
    /\ pc = "collect"
    /\ num_rounds.isnan
    /\ pc' = "done"
    /\ outcome' = "TypeError"
    /\ UNCHANGED <<inputVars, num_rounds, frameworkVars, visualization_data, calls,
                   aggregateVars, stressVars>>

\* Lines 681-692: one pass of the loop.
CollectRound ==
    /\ pc = "collect"
    /\ ~num_rounds.isnan
    /\ NextRound(visualization_data) < num_rounds.val
    /\ LET r == NextRound(visualization_data)
       IN  /\ calls' = Append(calls, r)
           /\ visualization_data' =
                AppendRound(visualization_data, r,
                            collect_simulation_data(panels, r, geographical_assignments,
                                                    climate_events_history))
    /\ UNCHANGED <<pc, inputVars, num_rounds, frameworkVars, outcome, aggregateVars,
                   stressVars>>

\* Slip: a run whose rounds all have no climate event is reported as no data.
Finish_NeedsEvents ==
    /\ pc = "collect"
    /\ ~num_rounds.isnan
    /\ NextRound(visualization_data) >= num_rounds.val
    /\ pc' = "done"
    /\ outcome' = IF \/ visualization_data.rounds = << >>
                     \/ \A i \in DOMAIN visualization_data.climate_events :
                            visualization_data.climate_events[i] = EmptyDict
                  THEN "no_data_collected"
                  ELSE "result"
    /\ UNCHANGED <<inputVars, num_rounds, frameworkVars, visualization_data, calls,
                   aggregateVars, stressVars>>

\* Lines 694-695 and 750-775: the loop is over; without rounds nothing is handed on.
\* Round numbers are not negative, so a detected count is at least 1 and the
\* "no_data_collected" branch is not taken on any panel of the model.
Finish ==
    /\ pc = "collect"
    /\ ~num_rounds.isnan
    /\ NextRound(visualization_data) >= num_rounds.val
    /\ pc' = "done"
    /\ outcome' = IF visualization_data.rounds = << >> THEN "no_data_collected"
                  ELSE "result"
    /\ UNCHANGED <<inputVars, num_rounds, frameworkVars, visualization_data, calls,
                   aggregateVars, stressVars>>

Next ==
    \/ ConfigNotFound
    \/ OutputNotFound
    \/ ReadError
    \/ DetectRounds
    \/ LoadGeography
    \/ LoadEvents
    \/ BuildFramework
    \/ RangeRaises
    \/ CollectRound
    \/ Finish

Spec == Init /\ [][Next]_vars

\* ------------------- specification of the round aggregator on its own inputs
\* One agent type has a rich panel, the other three are all absent or all one row.
AggregatePanels ==
    {[t \in AgentTypeSet |-> IF t = focus THEN File(rows) ELSE other] :
     focus \in AgentTypeSet,
     rows \in SeqsUpTo(RichRows, MaxRows),
     other \in {Absent, File(OneRow)}}

AsiaGeography ==
    [k \in {<<"commodity_producer", 0>>} |-> [continent |-> "Asia", vulnerability |-> 1]]
MixedGeography ==
    [k \in {<<"commodity_producer", 0>>, <<"household", 0>>} |->
        IF k[1] = "household" THEN [continent |-> "Asia", vulnerability |-> 2]
        ELSE [continent |-> "Europe", vulnerability |-> 1]]

Descriptor(agent_types, continents) ==
    [isdict |-> TRUE,
     data |-> [type |-> "configurable_shock", rule_name |-> "heat_rule",
               agent_types |-> agent_types, continents |-> continents,
               stress_factor |-> 2, duration |-> 3, affected_agents |-> EmptyDict]]
Entry(k, v) == [key |-> k, val |-> v]

\* Round 0 has a heatwave on commodity producers in Asia, round 1 has no event.
HeatwaveHistory ==
    <<<<Entry("heatwave", Descriptor(<<"commodity_producer">>, <<"Asia">>))>>, EmptyDict>>

InitAggregate ==
    /\ pc = "aggregate"
    /\ config_exists = TRUE
    /\ panels \in AggregatePanels
    /\ summary = Absent
    /\ num_rounds = None
    /\ geographical_assignments \in {<< >>, AsiaGeography, MixedGeography}
    /\ climate_events_history \in {<< >>, HeatwaveHistory}
    /\ visualization_data = None
    /\ calls = << >>
    /\ outcome = "running"
    /\ round_num \in Rounds
    /\ round_data = None
    /\ agent = NoAgent
    /\ climate_events = EmptyDict
    /\ is_climate_stressed = None

\* Lines 134-253: one call of collect_simulation_data.
Aggregate ==
    /\ pc = "aggregate"
    /\ round_data' = collect_simulation_data(panels, round_num, geographical_assignments,
                                             climate_events_history)
    /\ pc' = "aggregated"
    /\ UNCHANGED <<inputVars, num_rounds, frameworkVars, visualization_data, calls,
                   outcome, round_num, stressVars>>

SpecAggregate == InitAggregate /\ [][Aggregate]_vars

\* ------------------------------ specification of the two loaders on their own
LoaderGeoRows ==
    {GeoRow(t, id, c) : t \in {"commodity_producer", "household"},
                        id \in {IntCell(0), BadCell}, c \in {"Asia", "Europe"}}
LoaderEventRows ==
    {EventRow(p, r, name, c) : p \in EventProfiles, r \in EventRounds,
                               name \in {"heatwave", "flood"}, c \in {"Asia", "all"}}
LoaderSummaries ==
    {Absent, Unreadable}
    \cup {File(rows) : rows \in SeqsUpTo(LoaderGeoRows \cup LoaderEventRows, MaxSummaryRows)}

InitLoader ==
    /\ pc = "load_geo"
    /\ config_exists = TRUE
    /\ panels = [t \in AgentTypeSet |-> Absent]
    /\ summary \in LoaderSummaries
    /\ num_rounds = None
    /\ geographical_assignments = None
    /\ climate_events_history = None
    /\ visualization_data = None
    /\ calls = << >>
    /\ outcome = "running"
    /\ round_num = 0
    /\ round_data = None
    /\ agent = NoAgent
    /\ climate_events = EmptyDict
    /\ is_climate_stressed = None

NextLoader == LoadGeography \/ LoadEvents

SpecLoader == InitLoader /\ [][NextLoader]_vars

\* -------------------------------- specification of the stress attribution
StressKeys == {"heatwave", "Asia", "Europe"}
\* A value of the old format: anything that is not a dict.
LegacyValue == [isdict |-> FALSE, data |-> << >>]
\* A dict without the two lists: event_data.get() falls back to [] for both.
BareDescriptor == [isdict |-> TRUE, data |-> [type |-> "configurable_shock"]]
StressValues ==
    {Descriptor(types, continents) :
        types \in {<< >>, <<"commodity_producer">>, <<"commodity_producer", "household">>},
        continents \in {<<"all">>, <<"Asia">>, <<"Europe">>}}
    \cup {LegacyValue, BareDescriptor}
StressEntries == {Entry(k, v) : k \in StressKeys, v \in StressValues}
DistinctKeys(d) == \A i, j \in DOMAIN d : d[i].key = d[j].key => i = j
StressMappings == {d \in SeqsUpTo(StressEntries, MaxEvents) : DistinctKeys(d)}

InitStress ==
    /\ pc = "attribute"
    /\ config_exists = TRUE
    /\ panels = [t \in AgentTypeSet |-> Absent]
    /\ summary = Absent
    /\ num_rounds = None
    /\ geographical_assignments \in {<< >>, AsiaGeography, MixedGeography}
    /\ climate_events_history = << >>
    /\ visualization_data = None
    /\ calls = << >>
    /\ outcome = "running"
    /\ round_num = 0
    /\ round_data = None
    /\ agent \in [type : {"commodity_producer", "household"}, id : {0, 1}]
    /\ climate_events \in StressMappings
    /\ is_climate_stressed = None

\* Lines 255-282: one call of is_agent_climate_stressed.
Attribute ==
    /\ pc = "attribute"
    /\ is_climate_stressed' =
         is_agent_climate_stressed(agent.type, agent.id, climate_events,
                                   geographical_assignments)
    /\ pc' = "attributed"
    /\ UNCHANGED <<inputVars, num_rounds, frameworkVars, visualization_data, calls,
                   outcome, aggregateVars, agent, climate_events>>

SpecStress == InitStress /\ [][Attribute]_vars

\* ---------------- specification of the aggregator called in any order of rounds
\* collect_simulation_data takes the round as an argument and the framework by
\* reference; here it is called for any detected round, any number of times, after
\* the driver has built the framework.
ReorderPanels ==
    {[t \in AgentTypeSet |->
        IF t = "commodity_producer" THEN File(rows) ELSE other] :
     rows \in SeqsUpTo(DriverPanelRows, MaxRows) \ {<< >>},
     other \in {Absent, File(OneRow)}}

ReorderSummaries ==
    {Absent}
    \cup {File(<<GeoRow("commodity_producer", IntCell(0), "Asia"),
                 EventRow(HeatProfile, r, "heatwave", "Asia")>>) : r \in Rounds}

InitReorder ==
    /\ pc = "start"
    /\ config_exists = TRUE
    /\ panels \in ReorderPanels
    /\ summary \in ReorderSummaries
    /\ num_rounds = None
    /\ geographical_assignments = None
    /\ climate_events_history = None
    /\ visualization_data = None
    /\ calls = << >>
    /\ outcome = "running"
    /\ round_num = 0
    /\ round_data = None
    /\ agent = NoAgent
    /\ climate_events = EmptyDict
    /\ is_climate_stressed = None

\* Slip: the aggregator takes the round's events out of the history it reads.
AggregateAnyRound_ConsumesEvents ==
    /\ pc = "collect"
    /\ Len(calls) < MaxCalls
    /\ \E r \in 0..(num_rounds.val - 1) :
           /\ round_num' = r
           /\ round_data' = collect_simulation_data(panels, r, geographical_assignments,
                                                    climate_events_history)
           /\ calls' = Append(calls, r)
           /\ climate_events_history' =
                  [climate_events_history EXCEPT ![r + 1] = EmptyDict]
    /\ UNCHANGED <<pc, inputVars, num_rounds, geographical_assignments,
                   visualization_data, outcome, stressVars>>

\* Lines 134-253: one call of collect_simulation_data for any round below the
\* detected count. The function assigns to round_data only; the framework is read
\* at lines 145-147 and in the three lookups.
AggregateAnyRound ==
    /\ pc = "collect"
    /\ Len(calls) < MaxCalls
    /\ \E r \in 0..(num_rounds.val - 1) :
           /\ round_num' = r
           /\ round_data' = collect_simulation_data(panels, r, geographical_assignments,
                                                    climate_events_history)
           /\ calls' = Append(calls, r)
    /\ UNCHANGED <<pc, inputVars, num_rounds, frameworkVars, visualization_data,
                   outcome, stressVars>>

NextReorder ==
    \/ DetectRounds
    \/ LoadGeography
    \/ LoadEvents
    \/ BuildFramework
    \/ AggregateAnyRound

SpecReorder == InitReorder /\ [][NextReorder]_vars


\* ================================================================== claims
ListSet(list) == {list[i] : i \in DOMAIN list}
ProducingTypes == {"commodity_producer", "intermediary_firm", "final_goods_firm"}
RecordsOf(agents, agent_type) ==
    LET OfType(a) == a.type = agent_type IN SelectSeq(agents, OfType)
ProductionOfRecords(agents, agent_type) ==
    LET mine == RecordsOf(agents, agent_type)
    IN  SumSeq([i \in DOMAIN mine |-> mine[i].production])

\* C1: in the snapshot of a round, the production total of every producing category
\* equals the sum of the production fields of that category's agent records, also
\* when reading the category's rows fails part-way.
C1_ProductionTotalsMatchRecords ==
    pc = "aggregated" =>
        \A t \in ProducingTypes :
            round_data.production[ProductionKey(t)] = ProductionOfRecords(round_data.agents, t)

\* C2: a row whose name does not parse is skipped alone: every well-formed row of the
\* same category and round, before or after it, has its agent record in the snapshot.
C2_OnlyMalformedRowSkipped ==
    pc = "aggregated" =>
        \A t \in AgentTypeSet :
            \A i \in DOMAIN panels[t].rows :
                LET row == panels[t].rows[i]
                IN  (row.round = round_num /\ row.name.ok) =>
                        \E k \in DOMAIN round_data.agents :
                            /\ round_data.agents[k].type = t
                            /\ round_data.agents[k].id = row.name.n
                            /\ round_data.agents[k].round = round_num
                            /\ round_data.agents[k].wealth = row.money

\* C3: a malformed row of the summary file is skipped alone: every well-formed
\* geography row is in the returned assignment and every event row's event is in
\* the returned history at its round.
C3_MalformedSummaryRowSkippedAlone ==
    (pc = "pad" /\ summary.readable) =>
        \A i \in DOMAIN summary.rows :
            LET row == summary.rows[i]
            IN  IF row.data_type = GeoType
                THEN row.agent_id.ok =>
                        /\ <<row.agent_type, row.agent_id.n>> \in DOMAIN geographical_assignments
                ELSE row.agent_id.ok =>
                        /\ row.agent_id.n < Len(climate_events_history)
                        /\ DictHas(climate_events_history[row.agent_id.n + 1], row.event_name)

NoDataOutcomes == {"config_not_found", "output_not_found", "read_error", "no_data_collected"}
SummaryAbsent == ~summary.exists
AllRecords(data) ==
    UNION {ListSet(data.agent_data[i]) : i \in DOMAIN data.agent_data}

\* C4 as claimed: with the summary file absent the driver ends in a "no data"
\* outcome. Stated for the runs that detected a number of rounds, so that a
\* violation is a produced result.
C4_AbsentSummaryGivesNoData ==
    (pc = "done" /\ SummaryAbsent /\ outcome # "TypeError") => outcome \in NoDataOutcomes

\* C4 as amended: with the summary file absent the loaders return the empty
\* assignment and the empty history, and the driver ends in a "no data" outcome
\* only when the configuration or the commodity producer panel is missing or
\* unreadable; when the panel has rows it hands on one snapshot per detected round,
\* each with no event, no stressed agent and every agent on continent "Unknown".
C4_AbsentSummaryIsTolerated ==
    (pc = "done" /\ SummaryAbsent) =>
        /\ outcome \in NoDataOutcomes <=>
              (~config_exists \/ ~DetectionPanel.exists \/ ~DetectionPanel.readable)
        /\ outcome = "result" <=>
              (config_exists /\ DetectionPanel.readable /\ DetectionPanel.rows # << >>)
        /\ outcome = "result" =>
              /\ geographical_assignments = << >>
              /\ Len(visualization_data.rounds) = num_rounds.val
              /\ \A i \in DOMAIN visualization_data.climate_events :
                     visualization_data.climate_events[i] = EmptyDict
              /\ \A a \in AllRecords(visualization_data) :
                     ~a.climate_stressed /\ a.continent = "Unknown"

C4_Witness ==
    /\ pc = "done"
    /\ SummaryAbsent
    /\ outcome = "result"
    /\ Len(visualization_data.rounds) = 2
    /\ AllRecords(visualization_data) # {}

\* C5: with a commodity producer panel that has no rows (zero rounds) the driver
\* ends in the explicit "no data" outcome of line 751.
C5_ZeroRoundsGiveNoData ==
    (/\ pc = "done"
     /\ config_exists
     /\ DetectionPanel.readable
     /\ DetectionPanel.rows = << >>) => outcome = "no_data_collected"

LoadedHistory == load_real_climate_events(summary)
Max(a, b) == IF a >= b THEN a ELSE b

\* C6 as claimed: when aggregation begins the history has exactly as many entries
\* as rounds were detected.
C6_HistoryLengthIsRoundCount ==
    (pc = "collect" /\ ~num_rounds.isnan) =>
        Len(climate_events_history) = num_rounds.val

\* C6 as amended: when aggregation begins the history has max(L, N) entries, L the
\* loaded length and N the detected round count: the loaded entries unchanged,
\* followed by empty mappings up to N; a longer history is not truncated.
C6_HistoryPaddedNotTruncated ==
    (pc = "collect" /\ ~num_rounds.isnan) =>
        LET L == Len(LoadedHistory)
        IN  /\ Len(climate_events_history) = Max(L, num_rounds.val)
            /\ SubSeq(climate_events_history, 1, L) = LoadedHistory
            /\ \A i \in (L + 1)..Len(climate_events_history) :
                   climate_events_history[i] = EmptyDict

C6_Witness ==
    /\ pc = "collect"
    /\ ~num_rounds.isnan
    /\ Len(LoadedHistory) = 1
    /\ LoadedHistory[1] # EmptyDict
    /\ num_rounds.val = 2
    /\ Len(climate_events_history) = 2

Collecting == pc = "collect" \/ (pc = "done" /\ outcome \in {"no_data_collected", "result"})

\* C7: for every round r below the detected count N the padded history has an entry
\* r, the snapshot of round r holds exactly that entry as its active events, and a
\* round the loader did not cover has the empty mapping.
C7_SnapshotEventsAreHistoryEntry ==
    (Collecting /\ ~num_rounds.isnan) =>
        \A r \in 0..(num_rounds.val - 1) :
            /\ r < Len(climate_events_history)
            /\ r < Len(visualization_data.climate_events) =>
                   visualization_data.climate_events[r + 1] = climate_events_history[r + 1]
            /\ r >= Len(LoadedHistory) => climate_events_history[r + 1] = EmptyDict

C7_Witness ==
    /\ pc = "done"
    /\ outcome = "result"
    /\ Len(LoadedHistory) = 1
    /\ Len(visualization_data.climate_events) = 2
    /\ visualization_data.climate_events[1] # EmptyDict
    /\ visualization_data.climate_events[2] = EmptyDict

UpTo(k) == [i \in 1..k |-> i - 1]

\* C8: the round aggregator is called once per round in the order 0, 1, ..., N-1,
\* and the five lists returned have N entries, entry i being the one of round i.
C8_OneSnapshotPerRoundInOrder ==
    (Collecting /\ ~num_rounds.isnan) =>
        LET k == Len(calls)
            data == visualization_data
        IN  /\ k <= num_rounds.val
            /\ pc = "done" => k = num_rounds.val
            /\ calls = UpTo(k)
            /\ data.rounds = UpTo(k)
            /\ Len(data.agent_data) = k /\ Len(data.climate_events) = k
            /\ Len(data.production_data) = k /\ Len(data.wealth_data) = k
            /\ \A i \in 1..k :
                   LET rd == collect_simulation_data(panels, i - 1, geographical_assignments,
                                                     climate_events_history)
                   IN  /\ data.agent_data[i] = rd.agents
                       /\ data.climate_events[i] = rd.climate
                       /\ data.production_data[i] = rd.production
                       /\ data.wealth_data[i] = rd.wealth
                       /\ \A j \in DOMAIN data.agent_data[i] :
                              data.agent_data[i][j].round = i - 1

C8_Witness ==
    /\ pc = "done"
    /\ outcome = "result"
    /\ calls = <<0, 1>>
    /\ visualization_data.agent_data[1] # << >>
    /\ visualization_data.agent_data[2] # << >>
    /\ visualization_data.agent_data[1] # visualization_data.agent_data[2]

\* The affected categories and continents of a descriptor; one that names none has none.
Categories(e) ==
    IF "agent_types" \in DOMAIN e.val.data THEN ListSet(e.val.data.agent_types) ELSE {}
Continents(e) ==
    IF "continents" \in DOMAIN e.val.data THEN ListSet(e.val.data.continents) ELSE {}

\* The rule of the claims for one event and one agent.
RuleMatches(e, a, geo) ==
    LET continent == get_agent_continent(a.type, a.id, geo)
    IN  IF e.val.isdict
        THEN /\ a.type \in Categories(e)
             /\ ("all" \in Continents(e) \/ continent \in Continents(e))
        ELSE e.key \in LegacyContinents /\ e.key = continent

ModernOnly(d) == \A i \in DOMAIN d : d[i].val.isdict

\* C9: on a mapping of descriptors the agent is stressed exactly when some event's
\* agent types contain its type and the event's continents contain "all" or the
\* agent's continent; on the empty mapping it is not stressed.
C9_StressedIffSomeEventMatches ==
    (pc = "attributed" /\ ModernOnly(climate_events)) =>
        /\ is_climate_stressed =
              (\E i \in DOMAIN climate_events :
                   RuleMatches(climate_events[i], agent, geographical_assignments))
        /\ climate_events = EmptyDict => is_climate_stressed = FALSE

C9_Witness ==
    /\ pc = "attributed"
    /\ ModernOnly(climate_events)
    /\ Len(climate_events) = 2
    /\ ~RuleMatches(climate_events[1], agent, geographical_assignments)
    /\ Continents(climate_events[2]) = {"Asia"}
    /\ is_climate_stressed = TRUE

\* d with entry e put after its first p entries
InsertAt(d, p, e) == SubSeq(d, 1, p) \o <<e>> \o SubSeq(d, p + 1, Len(d))

\* C10: one more event of either format under a new key, which does not match the
\* agent, leaves the result as it was, wherever the event comes in the iteration.
C10_NonMatchingEventChangesNothing ==
    pc = "attributed" =>
        \A e \in StressEntries :
            (~DictHas(climate_events, e.key)
             /\ ~RuleMatches(e, agent, geographical_assignments)) =>
                \A p \in 0..Len(climate_events) :
                    is_agent_climate_stressed(agent.type, agent.id,
                                              InsertAt(climate_events, p, e),
                                              geographical_assignments)
                        = is_climate_stressed

C10_Witness ==
    /\ pc = "attributed"
    /\ is_climate_stressed = TRUE
    /\ Len(climate_events) = 2
    /\ ~RuleMatches(climate_events[1], agent, geographical_assignments)
    /\ \E e \in StressEntries :
           /\ ~DictHas(climate_events, e.key)
           /\ ~e.val.isdict
           /\ e.key \in LegacyContinents
           /\ ~RuleMatches(e, agent, geographical_assignments)

\* C11: a descriptor whose continents contain "all" and whose agent types contain
\* the agent's type makes the agent stressed whatever its continent, also when it
\* has no geography entry (continent "Unknown").
C11_WildcardStressesWholeCategory ==
    (/\ pc = "attributed"
     /\ \E i \in DOMAIN climate_events :
            /\ climate_events[i].val.isdict
            /\ agent.type \in Categories(climate_events[i])
            /\ "all" \in Continents(climate_events[i])) => is_climate_stressed = TRUE

C11_Witness ==
    /\ pc = "attributed"
    /\ <<agent.type, agent.id>> \notin DOMAIN geographical_assignments
    /\ Len(climate_events) = 2
    /\ ~RuleMatches(climate_events[1], agent, geographical_assignments)
    /\ climate_events[2].val.isdict
    /\ agent.type \in Categories(climate_events[2])
    /\ "all" \in Continents(climate_events[2])
    /\ is_climate_stressed = TRUE

\* The continent labels of the old format that the model's mappings use as keys.
RecognizedKeys == {"Asia", "Europe"}
LegacyMapping(K) == <<Entry(K, LegacyValue)>>
\* The descriptors that name continent K alone and at least one agent type.
DescriptorsFor(K) ==
    {v \in StressValues : v.isdict /\ Continents(Entry("heatwave", v)) = {K}
                          /\ Categories(Entry("heatwave", v)) # {}}
ModernResult(v) ==
    is_agent_climate_stressed(agent.type, agent.id, <<Entry("heatwave", v)>>,
                              geographical_assignments)

\* C12 as claimed: the old-format mapping {K: value} and a mapping of one descriptor
\* with continents {K} give every agent the same result.
C12_LegacyAgreesWithDescriptor ==
    \A K \in RecognizedKeys :
        (pc = "attributed" /\ climate_events = LegacyMapping(K)) =>
            \A v \in DescriptorsFor(K) : ModernResult(v) = is_climate_stressed

\* C12 as amended: the two agree for the agents whose type the descriptor lists; an
\* agent of another type is never stressed by the descriptor, while the old-format
\* mapping stresses it when its continent is K.
C12_LegacyAgreesOnListedTypes ==
    \A K \in RecognizedKeys :
        (pc = "attributed" /\ climate_events = LegacyMapping(K)) =>
            /\ is_climate_stressed =
                   (get_agent_continent(agent.type, agent.id, geographical_assignments) = K)
            /\ \A v \in DescriptorsFor(K) :
                   ModernResult(v) =
                       (is_climate_stressed /\ agent.type \in Categories(Entry("heatwave", v)))

C12_Witness ==
    /\ pc = "attributed"
    /\ climate_events = LegacyMapping("Asia")
    /\ is_climate_stressed = TRUE
    /\ \E v \in DescriptorsFor("Asia") : ModernResult(v) = TRUE
    /\ \E v \in DescriptorsFor("Asia") : ModernResult(v) = FALSE

\* The rows of a panel that belong to round r, in file order.
RoundRowsOf(file, r) ==
    LET InRound(row) == row.round = r
    IN  IF file.exists /\ file.readable THEN SelectSeq(file.rows, InRound) ELSE << >>

\* C13: the household panel adds nothing to the production totals (they are what
\* the three producing panels alone give), and the k-th household record has
\* production 0, capacity 0 and, as consumption, the quantity of the k-th household
\* row of the round.
C13_HouseholdsConsumeOnly ==
    pc = "aggregated" =>
        LET records == RecordsOf(round_data.agents, "household")
            rows == RoundRowsOf(panels["household"], round_num)
            producers == collect_simulation_data([panels EXCEPT !["household"] = Absent],
                                                 round_num, geographical_assignments,
                                                 climate_events_history)
        IN  /\ round_data.production = producers.production
            /\ round_data.inventories = producers.inventories
            /\ Len(records) <= Len(rows)
            /\ \A k \in DOMAIN records :
                   /\ records[k].production = 0
                   /\ records[k].production_capacity = 0
                   /\ records[k].consumption = rows[k].good

C13_Witness ==
    /\ pc = "aggregated"
    /\ Len(RecordsOf(round_data.agents, "household")) = 2
    /\ RecordsOf(round_data.agents, "household")[1].consumption = 10
    /\ RecordsOf(round_data.agents, "household")[2].consumption = 15
    /\ round_data.production.final_goods > 0

\* What the geography says of a pair, stated on the mapping itself.
StoredContinent(t, id, geo) ==
    IF \E k \in DOMAIN geo : k = <<t, id>> THEN geo[<<t, id>>].continent ELSE "Unknown"
StoredVulnerability(t, id, geo) ==
    IF \E k \in DOMAIN geo : k = <<t, id>> THEN geo[<<t, id>>].vulnerability ELSE 0

\* C14: every record of a snapshot carries the continent and vulnerability stored
\* for its (type, id) pair, and "Unknown" and 0 when the pair has no entry.
C14_RecordsCarryGeography ==
    pc = "aggregated" =>
        \A i \in DOMAIN round_data.agents :
            LET a == round_data.agents[i]
            IN  /\ a.continent = StoredContinent(a.type, a.id, geographical_assignments)
                /\ a.vulnerability = StoredVulnerability(a.type, a.id, geographical_assignments)

C14_Witness ==
    /\ pc = "aggregated"
    /\ geographical_assignments = MixedGeography
    /\ \E i, j \in DOMAIN round_data.agents :
           /\ round_data.agents[i].type = "household" /\ round_data.agents[i].id = 0
           /\ round_data.agents[i].continent = "Asia"
           /\ round_data.agents[i].vulnerability = 2
           /\ round_data.agents[j].type = "household" /\ round_data.agents[j].id = 1
           /\ round_data.agents[j].continent = "Unknown"
           /\ round_data.agents[j].vulnerability = 0

\* The panel of agent type t fails in round r: the file is missing, reading it
\* raises, or one of the round's rows has a name that is not an integer.
FailsIn(t, r) ==
    \/ ~panels[t].exists
    \/ ~panels[t].readable
    \/ \E k \in DOMAIN RoundRowsOf(panels[t], r) : ~RoundRowsOf(panels[t], r)[k].name.ok

\* C15: whichever panels fail, every snapshot holds, for each agent type that does
\* not fail in its round, one record per row of the round and the column sum as
\* total; a type whose file is missing or unreadable has no record; and the driver
\* ends with one snapshot per detected round.
C15_FailureStaysInItsCategory ==
    (Collecting /\ ~num_rounds.isnan) =>
        LET data == visualization_data
        IN  /\ pc = "done" => (outcome = "result" /\ Len(data.rounds) = num_rounds.val)
            /\ \A i \in DOMAIN data.rounds : \A t \in AgentTypeSet :
                   LET rows == RoundRowsOf(panels[t], i - 1)
                       records == RecordsOf(data.agent_data[i], t)
                   IN  ~(\E k \in DOMAIN rows : ~rows[k].name.ok) =>
                           /\ Len(records) = Len(rows)
                           /\ \A k \in DOMAIN records :
                                  /\ records[k].id = rows[k].name.n
                                  /\ records[k].round = i - 1
                                  /\ records[k].wealth = rows[k].money
                           /\ t \in ProducingTypes =>
                                  data.production_data[i][ProductionKey(t)] =
                                      SumSeq([k \in DOMAIN rows |-> rows[k].good])

C15_Witness ==
    /\ pc = "done" /\ outcome = "result"
    /\ num_rounds = Num(2)
    /\ FailsIn("intermediary_firm", 0) /\ panels["intermediary_firm"].readable
    /\ ~panels["household"].exists
    /\ Len(RecordsOf(visualization_data.agent_data[1], "commodity_producer")) = 1
    /\ Len(RecordsOf(visualization_data.agent_data[1], "final_goods_firm")) = 1
    /\ visualization_data.production_data[1].final_goods = 10
    /\ Len(RecordsOf(visualization_data.agent_data[2], "commodity_producer")) = 1

\* The framework as the driver builds it from the summary file, before any round
\* is aggregated.
BuiltGeography == load_real_geographical_assignments(summary)
BuiltHistory == PadHistory(LoadedHistory, num_rounds)

\* C16: however many rounds were aggregated and in whatever order, the geography
\* and the history are those built before the first call, and the snapshot of the
\* round aggregated last is the one these give for that round.
C16_AggregatorLeavesFrameworkAlone ==
    pc = "collect" =>
        /\ geographical_assignments = BuiltGeography
        /\ climate_events_history = BuiltHistory
        /\ calls # << >> =>
               round_data = collect_simulation_data(panels, round_num, BuiltGeography,
                                                    BuiltHistory)

\* Round 0 is aggregated after round 1 and then once more, with an event and a
\* stressed agent in it.
C16_Witness ==
    /\ pc = "collect"
    /\ calls = <<1, 0, 0>>
    /\ round_data.climate # EmptyDict
    /\ \E i \in DOMAIN round_data.agents : round_data.agents[i].climate_stressed

\* C17: with the summary file absent the geography loader returns the empty
\* assignment and the event loader the empty history; the driver then aggregates
\* every detected round and ends with a result in which every record is unstressed,
\* on continent "Unknown" and of vulnerability 0.
C17_EmptyFrameworkIsAggregated ==
    SummaryAbsent =>
        /\ pc \in {"load_events", "pad", "collect"} => geographical_assignments = << >>
        /\ pc = "pad" => climate_events_history = << >>
        /\ (Collecting /\ ~num_rounds.isnan) =>
               /\ Len(climate_events_history) = num_rounds.val
               /\ \A r \in DOMAIN climate_events_history :
                      climate_events_history[r] = EmptyDict
               /\ pc = "done" =>
                      /\ outcome = "result"
                      /\ visualization_data.rounds = UpTo(num_rounds.val)
               /\ \A i \in DOMAIN visualization_data.agent_data :
                      \A j \in DOMAIN visualization_data.agent_data[i] :
                          LET a == visualization_data.agent_data[i][j]
                          IN  /\ a.climate_stressed = FALSE
                              /\ a.continent = "Unknown"
                              /\ a.vulnerability = 0

C17_Witness ==
    /\ pc = "done"
    /\ SummaryAbsent
    /\ outcome = "result"
    /\ num_rounds = Num(2)
    /\ Len(visualization_data.agent_data[1]) = 4
    /\ Len(visualization_data.agent_data[2]) = 1
    /\ \A a \in AllRecords(visualization_data) : a.continent = "Unknown"

\* The event rows of the summary file, and those of round r.
SummaryEventRows == EventRowsOf(summary.rows)
EventRowsIn(r) ==
    LET InRound(row) == row.agent_id.ok /\ row.agent_id.n = r
    IN  SelectSeq(SummaryEventRows, InRound)
KeysOf(d) == {d[i].key : i \in DOMAIN d}

\* C18: a summary file with at least one event row gives a history of max + 1
\* entries, max being the largest round of an event row; entry r holds the event
\* names of the rows of round r and no other, so that a round without rows holds
\* the empty mapping.
C18_HistoryCoversObservedRounds ==
    (pc = "pad" /\ summary.exists /\ summary.readable /\ SummaryEventRows # << >>) =>
        LET observed == {SummaryEventRows[i].agent_id.n : i \in DOMAIN SummaryEventRows}
            max_round == CHOOSE m \in observed : \A x \in observed : x <= m
        IN  /\ Len(climate_events_history) = max_round + 1
            /\ \A r \in 0..max_round :
                   /\ r + 1 \in DOMAIN climate_events_history
                   /\ KeysOf(climate_events_history[r + 1]) =
                          {EventRowsIn(r)[k].event_name : k \in DOMAIN EventRowsIn(r)}

\* The rows of round r that carry event name n, in file order.
GroupOf(r, n) ==
    LET Named(row) == row.event_name = n
    IN  SelectSeq(EventRowsIn(r), Named)
\* The agent types a cell of the summary file lists between its commas.
ListedTypes(cell) ==
    LET IsName(piece) == piece # ","
    IN  IF cell.isna THEN << >> ELSE SelectSeq(cell.val, IsName)

\* C19: every loaded descriptor has the rule, the agent types, the stress factor
\* and the duration of the first row of its (round, event name) group, 1 standing
\* for a missing stress factor or duration, and as continents, each once, those of
\* all the rows of the group and of no row of another round or name.
C19_FirstRowDefinesEvent ==
    pc = "pad" =>
        \A r \in DOMAIN climate_events_history :
            \A j \in DOMAIN climate_events_history[r] :
                LET e == climate_events_history[r][j]
                    group == GroupOf(r - 1, e.key)
                    first == group[1]
                    d == e.val.data
                IN  /\ group # << >>
                    /\ e.val.isdict
                    /\ d.rule_name = first.data_type
                    /\ d.agent_types = ListedTypes(first.affected_agent_types)
                    /\ d.stress_factor =
                           (IF first.stress_factor.isna THEN 1 ELSE first.stress_factor.val)
                    /\ d.duration = (IF first.duration.isna THEN 1 ELSE first.duration.val)
                    /\ ListSet(d.continents) = {group[k].continent : k \in DOMAIN group}
                    /\ Len(d.continents) = Cardinality(ListSet(d.continents))

\* Two rows of one round and one name that differ in everything else: the first
\* gives the rule and the rest, both give the continents.
C19_Witness ==
    /\ pc = "pad"
    /\ Len(climate_events_history) = 2
    /\ climate_events_history[1] = EmptyDict
    /\ Len(climate_events_history[2]) = 1
    /\ Len(GroupOf(1, "flood")) = 2
    /\ GroupOf(1, "flood")[1].data_type = "flood_rule"
    /\ GroupOf(1, "flood")[2].data_type = "heat_rule"
    /\ climate_events_history[2][1].val.data.rule_name = "flood_rule"
    /\ climate_events_history[2][1].val.data.agent_types = <<"commodity_producer", "household">>
    /\ climate_events_history[2][1].val.data.duration = 2
    /\ climate_events_history[2][1].val.data.stress_factor = 1
    /\ climate_events_history[2][1].val.data.continents = <<"Asia", "all">>

\* The mapping with every descriptor's duration and stress factor replaced.
WithDurationAndFactor(events, d, f) ==
    [k \in DOMAIN events |->
        IF events[k].val.isdict
        THEN [events[k] EXCEPT !.val.data.duration = d, !.val.data.stress_factor = f]
        ELSE events[k]]
OtherDurations == {1, 5}
OtherFactors == {1, 3}

\* C20: the flag of a record of snapshot r is TRUE exactly when an event of the
\* history's entry r matches the agent by type and continent, whatever the entries
\* of the rounds before hold and whatever their durations; and the flag is the one
\* the entry gives with any other duration and stress factor.
C20_StressFollowsRoundEntryOnly ==
    (Collecting /\ ~num_rounds.isnan) =>
        \A i \in DOMAIN visualization_data.agent_data :
            \A j \in DOMAIN visualization_data.agent_data[i] :
                LET a == visualization_data.agent_data[i][j]
                    entry == climate_events_history[i]
                IN  /\ a.climate_stressed =
                           (\E k \in DOMAIN entry :
                                RuleMatches(entry[k], a, geographical_assignments))
                    /\ \A d \in OtherDurations, f \in OtherFactors :
                           is_agent_climate_stressed(a.type, a.id,
                                                     WithDurationAndFactor(entry, d, f),
                                                     geographical_assignments)
                               = a.climate_stressed

\* A heatwave of duration 3 in round 0 alone: the producer on Asia is stressed in
\* snapshot 0 and not in snapshot 1.
C20_Witness ==
    /\ pc = "done" /\ outcome = "result"
    /\ Len(climate_events_history) = 2
    /\ Len(climate_events_history[1]) = 1
    /\ climate_events_history[1][1].val.data.duration = 3
    /\ climate_events_history[2] = EmptyDict
    /\ \E j \in DOMAIN visualization_data.agent_data[1] :
           visualization_data.agent_data[1][j].climate_stressed = TRUE
    /\ \E j \in DOMAIN visualization_data.agent_data[2] :
           /\ visualization_data.agent_data[2][j].type = "commodity_producer"
           /\ visualization_data.agent_data[2][j].continent = "Asia"
           /\ visualization_data.agent_data[2][j].climate_stressed = FALSE

====
